---- MODULE Spec2Model ----
(***************************************************************************)
(* Model of src/src/App.jsx: the effect that builds the globe scene, the   *)
(* one-shot geolocation query, the texture load, the animation loop, the   *)
(* resize handler and the effect's cleanup.  The file holds two variants   *)
(* of the component: "overlay" (lines 1-196, with the time overlay and the *)
(* sun-positioned light) and "plain" (lines 197-390).                      *)
(*                                                                         *)
(* JavaScript numbers are modelled in fixed point: one unit is 1/U.        *)
(* Angles are in 1/U radians, latitudes and longitudes in 1/U degrees,     *)
(* lengths in 1/U scene units.  Instants are whole hours since the epoch.  *)
(***************************************************************************)
EXTENDS Integers, Sequences, FiniteSets, TLC

\* ---------------------------------------------------------------- bounds
MaxClock == 3
MaxFrames == 3

\* ------------------------------------------------------- fixed-point unit
U == 1000

\* ------------------------------------------------------ program constants
Radius == 2
FallbackLat == 45464
FallbackLon == 9190
LightDistance == 10
RotStep == 2
MsPerHour == 3600000

Variants == {"overlay", "plain"}
\* window.innerWidth / window.innerHeight values the browser may report
WindowSizes == {<<800, 600>>, <<1024, 768>>}
\* coordinates the geolocation provider may answer with (1/U degrees)
GeoCoords == {<<FallbackLat, FallbackLon>>, <<0, 0>>, <<-33868, 151209>>}

\* ------------------------------------------------------------- arithmetic
Pi == 3142
HalfPi == 1571
TwoPi == 6283

\* product of two fixed-point numbers, rounded towards zero
FMul(a, b) == IF a * b >= 0 THEN (a * b) \div U ELSE -((-(a * b)) \div U)

\* Math.sin on [0, pi/2]: Taylor polynomial up to x^7
SinQ(x) ==
  LET x2 == (x * x) \div U
      t3 == (x * x2) \div (6 * U)
      t5 == (t3 * x2) \div (20 * U)
      t7 == (t5 * x2) \div (42 * U)
  IN  x - t3 + t5 - t7

\* Math.sin
Sin(x) ==
  LET r == x % TwoPi
  IN  IF r <= HalfPi THEN SinQ(r)
      ELSE IF r <= Pi THEN SinQ(Pi - r)
      ELSE IF r <= Pi + HalfPi THEN -SinQ(r - Pi)
      ELSE -SinQ(TwoPi - r)

\* Math.cos
Cos(x) == Sin(x + HalfPi)

\* x * (Math.PI / 180), x in 1/U degrees, result in 1/U radians
DegToRad(x) ==
  IF x >= 0 THEN (x * 1745) \div 100000 ELSE -(((-x) * 1745) \div 100000)

\* Vector3.multiplyScalar
MultiplyScalar(v, s) == <<v[1] * s, v[2] * s, v[3] * s>>

\* Vector3.negate
Negate(v) == <<-v[1], -v[2], -v[3]>>

\* Vector3.lengthSq, in units of 1/U
LengthSq(v) == FMul(v[1], v[1]) + FMul(v[2], v[2]) + FMul(v[3], v[3])

\* ------------------------------------------------------------ conversions
\* positionDotAtLocation: the position it writes to dot.position
positionDotAtLocation(lat, lon) ==
  LET phi == DegToRad(90 * U - lat)
      theta == DegToRad(lon + 180 * U)
  IN  << -(Radius * FMul(Sin(phi), Cos(theta))),
         Radius * Cos(phi),
         Radius * FMul(Sin(phi), Sin(theta)) >>

\* SunCalc.getPosition(date, 0, 0) sampled at the first hours of the epoch:
\* <<altitude, azimuth>> in 1/U radians, a function of the instant alone
SunCalcTable ==
  << <<-1169, 58>>, <<-1108, -505>>, <<-941, -845>>, <<-730, -1019>>,
     <<-501, -1109>>, <<-264, -1154>>, <<-23, -1169>>, <<217, -1159>> >>

getPosition(t) ==
  LET e == SunCalcTable[(t % Len(SunCalcTable)) + 1]
  IN  [altitude |-> e[1], azimuth |-> e[2]]

\* the sun direction vector built from SunCalc's altitude and azimuth
SunDirectionAt(t) ==
  LET sunPos == getPosition(t)
  IN  << FMul(Cos(sunPos.altitude), Sin(sunPos.azimuth)),
         Sin(sunPos.altitude),
         FMul(Cos(sunPos.altitude), Cos(sunPos.azimuth)) >>

\* sunDirection as the setup code leaves it: the overlay variant scales the
\* vector in place (multiplyScalar mutates its receiver) before the clip
\* plane is built from it
SetupSunDirection(v, t) ==
  IF v = "overlay" THEN MultiplyScalar(SunDirectionAt(t), LightDistance)
  ELSE SunDirectionAt(t)

\* sunLight.position after setup
SetupLightPosition(v, t) ==
  IF v = "overlay" THEN SetupSunDirection(v, t)
  ELSE <<5 * U, 3 * U, 5 * U>>

\* clipPlane.normal after setup: sunDirection.clone().negate()
SetupClipNormal(v, t) == Negate(SetupSunDirection(v, t))

\* 0.5 + Math.sin(Date.now() * 0.002) * 0.5
Intensity(t) == (U \div 2) + (Sin(t * MsPerHour * 2) \div 2)

\* ------------------------------------------------------------------ state
VARIABLES
  variant,           \* which of the two components of the file is mounted
  clock,             \* the wall clock, read by new Date() / Date.now()
  currentTime,       \* const currentTime = new Date() of the effect
  overlayTime,       \* React state currentTime (overlay variant), else -1
  sunDirection,      \* the Vector3 sunDirection
  sunLightPos,       \* sunLight.position
  clipNormal,        \* clipPlane.normal
  clipConstant,      \* clipPlane.constant
  rotY,              \* sphere.rotation.y
  nightRotY,         \* nightSphere.rotation.y
  dot,               \* dot.position (local to the sphere)
  emissiveIntensity, \* dotMaterial.emissiveIntensity
  geo,               \* state of the geolocation query
  posCalls,          \* number of calls of positionDotAtLocation
  texture,           \* state of the texture load
  rafPending,        \* frame requests pending in the browser
  frames,            \* number of invocations of animate
  frameTime,         \* the instant read by the last invocation of animate
  renderedDot,       \* dot.position as drawn by the last renderer.render
  observed,          \* what each frame left behind, by the frame's instant
  resizeListener,    \* handleResize is registered on window
  disposed,          \* the cleanup has run (renderer.dispose())
  rendererSize,      \* size given to renderer.setSize
  cameraAspect,      \* camera.aspect as <<width, height>>
  logged             \* messages written to the console

vars == <<variant, clock, currentTime, overlayTime, sunDirection, sunLightPos,
          clipNormal, clipConstant, rotY, nightRotY, dot, emissiveIntensity,
          geo, posCalls, texture, rafPending, frames, frameTime, renderedDot,
          observed, resizeListener, disposed, rendererSize, cameraAspect,
          logged>>

Origin == <<0, 0, 0>>

FrameRecord(t, d, l, n) == [instant |-> t, dir |-> d, light |-> l, normal |-> n]

\* ------------------------------------------------------------------- init
\* The state when the effect returns: the scene is built, the geolocation
\* query is issued (or the unsupported branch has run), animate() has been
\* called once and has requested the next frame.
Init ==
  /\ variant \in Variants
  /\ clock \in 0..MaxClock
  /\ currentTime = clock
  /\ overlayTime = IF variant = "overlay" THEN clock ELSE -1
  /\ sunDirection = SetupSunDirection(variant, clock)
  /\ sunLightPos = SetupLightPosition(variant, clock)
  /\ clipNormal = SetupClipNormal(variant, clock)
  /\ clipConstant = 0
  /\ rotY = RotStep
  /\ nightRotY = 0
  /\ geo \in {"pending", "unsupported"}
  /\ dot = IF geo = "unsupported"
           THEN positionDotAtLocation(FallbackLat, FallbackLon)
           ELSE Origin
  /\ posCalls = IF geo = "unsupported" THEN 1 ELSE 0
  /\ emissiveIntensity = Intensity(clock)
  /\ texture = "loading"
  /\ rafPending = 1
  /\ frames = 1
  /\ frameTime = clock
  /\ renderedDot = dot
  /\ observed = {FrameRecord(clock, sunDirection, sunLightPos, clipNormal)}
  /\ resizeListener = TRUE
  /\ disposed = FALSE
  /\ rendererSize \in WindowSizes
  /\ cameraAspect = rendererSize
  /\ logged = IF geo = "unsupported"
              THEN {"Geolocation not supported, defaulting to Milan"}
              ELSE {}

\* ---------------------------------------------------------------- actions
\* time passes
Tick ==
  /\ clock < MaxClock
  /\ clock' = clock + 1
  /\ UNCHANGED <<variant, currentTime, overlayTime, sunDirection, sunLightPos,
                 clipNormal, clipConstant, rotY, nightRotY, dot,
                 emissiveIntensity, geo, posCalls, texture, rafPending, frames,
                 frameTime, renderedDot, observed, resizeListener, disposed,
                 rendererSize, cameraAspect, logged>>

\* a rotation step of 0.02 instead of 0.002
NextRotation_WrongStep(r) == r + 10 * RotStep

\* sphere.rotation.y += 0.002
NextRotation(r) == r + RotStep

\* the delivered request is consumed and never replaced
Reschedule_Dropped(p) == p - 1

\* the delivered request is consumed; requestAnimationFrame(animate) adds one
Reschedule(p) == (p - 1) + 1

\* animate() that also re-places the marker at the fallback on every frame
animate_MovesDot ==
  /\ rafPending > 0
  /\ frames < MaxFrames
  /\ rafPending' = Reschedule(rafPending)
  /\ rotY' = NextRotation(rotY)
  /\ emissiveIntensity' = Intensity(clock)
  /\ overlayTime' = IF variant = "overlay" THEN clock ELSE overlayTime
  /\ frames' = frames + 1
  /\ frameTime' = clock
  /\ dot' = positionDotAtLocation(FallbackLat, FallbackLon)
  /\ UNCHANGED <<variant, clock, currentTime, sunDirection, sunLightPos,
                 clipNormal, clipConstant, nightRotY, geo, posCalls,
                 texture, resizeListener, disposed, rendererSize, cameraAspect,
                 logged>>
  /\ renderedDot' = dot'
  /\ observed' = observed \cup
                   {FrameRecord(clock, sunDirection', sunLightPos', clipNormal')}

\* animate() that re-places the light with the in-place scaling of setup:
\* sunLight.position.copy(sunDirection.multiplyScalar(10))
animate_ScalesInPlace ==
  /\ rafPending > 0
  /\ frames < MaxFrames
  /\ rafPending' = Reschedule(rafPending)
  /\ rotY' = NextRotation(rotY)
  /\ emissiveIntensity' = Intensity(clock)
  /\ overlayTime' = IF variant = "overlay" THEN clock ELSE overlayTime
  /\ frames' = frames + 1
  /\ frameTime' = clock
  /\ sunDirection' = MultiplyScalar(sunDirection, LightDistance)
  /\ sunLightPos' = sunDirection'
  /\ UNCHANGED <<variant, clock, currentTime, clipNormal, clipConstant,
                 nightRotY, dot, geo, posCalls, texture, resizeListener,
                 disposed, rendererSize, cameraAspect, logged>>
  /\ renderedDot' = dot
  /\ observed' = observed \cup
                   {FrameRecord(clock, sunDirection', sunLightPos', clipNormal')}

\* the browser delivers a pending frame request: animate()
animate ==
  /\ rafPending > 0
  /\ frames < MaxFrames
  /\ rafPending' = Reschedule(rafPending)
  /\ rotY' = NextRotation(rotY)
  /\ emissiveIntensity' = Intensity(clock)
  /\ overlayTime' = IF variant = "overlay" THEN clock ELSE overlayTime
  /\ frames' = frames + 1
  /\ frameTime' = clock
  /\ UNCHANGED <<variant, clock, currentTime, sunDirection, sunLightPos,
                 clipNormal, clipConstant, nightRotY, dot, geo, posCalls,
                 texture, resizeListener, disposed, rendererSize, cameraAspect,
                 logged>>
  /\ renderedDot' = dot'
  /\ observed' = observed \cup
                   {FrameRecord(clock, sunDirection', sunLightPos', clipNormal')}

\* getCurrentPosition's success callback
GeoSuccess ==
  /\ geo = "pending"
  /\ \E c \in GeoCoords :
       /\ dot' = positionDotAtLocation(c[1], c[2])
       /\ geo' = "success"
       /\ posCalls' = posCalls + 1
       /\ logged' = logged \cup {"Your location:"}
  /\ UNCHANGED <<variant, clock, currentTime, overlayTime, sunDirection,
                 sunLightPos, clipNormal, clipConstant, rotY, nightRotY,
                 emissiveIntensity, texture, rafPending, frames, frameTime,
                 renderedDot, observed, resizeListener, disposed, rendererSize,
                 cameraAspect>>

\* an error callback that passes the fallback as (lon, lat)
GeoError_SwappedCoords ==
  /\ geo = "pending"
  /\ dot' = positionDotAtLocation(FallbackLon, FallbackLat)
  /\ geo' = "error"
  /\ posCalls' = posCalls + 1
  /\ logged' = logged \cup {"Geolocation error, defaulting to Milan:"}
  /\ UNCHANGED <<variant, clock, currentTime, overlayTime, sunDirection,
                 sunLightPos, clipNormal, clipConstant, rotY, nightRotY,
                 emissiveIntensity, texture, rafPending, frames, frameTime,
                 renderedDot, observed, resizeListener, disposed, rendererSize,
                 cameraAspect>>

\* getCurrentPosition's error callback
GeoError ==
  /\ geo = "pending"
  /\ dot' = positionDotAtLocation(FallbackLat, FallbackLon)
  /\ geo' = "error"
  /\ posCalls' = posCalls + 1
  /\ logged' = logged \cup {"Geolocation error, defaulting to Milan:"}
  /\ UNCHANGED <<variant, clock, currentTime, overlayTime, sunDirection,
                 sunLightPos, clipNormal, clipConstant, rotY, nightRotY,
                 emissiveIntensity, texture, rafPending, frames, frameTime,
                 renderedDot, observed, resizeListener, disposed, rendererSize,
                 cameraAspect>>

\* textureLoader.load's onLoad callback
TextureLoaded ==
  /\ texture = "loading"
  /\ texture' = "loaded"
  /\ logged' = logged \cup {"Earth texture loaded"}
  /\ UNCHANGED <<variant, clock, currentTime, overlayTime, sunDirection,
                 sunLightPos, clipNormal, clipConstant, rotY, nightRotY, dot,
                 emissiveIntensity, geo, posCalls, rafPending, frames,
                 frameTime, renderedDot, observed, resizeListener, disposed,
                 rendererSize, cameraAspect>>

\* an onError callback whose failure stops the frame loop
TextureError_Halts ==
  /\ texture = "loading"
  /\ texture' = "error"
  /\ rafPending' = 0
  /\ logged' = logged \cup {"Error loading texture:"}
  /\ UNCHANGED <<variant, clock, currentTime, overlayTime, sunDirection,
                 sunLightPos, clipNormal, clipConstant, rotY, nightRotY, dot,
                 emissiveIntensity, geo, posCalls, frames,
                 frameTime, renderedDot, observed, resizeListener, disposed,
                 rendererSize, cameraAspect>>

\* textureLoader.load's onError callback
TextureError ==
  /\ texture = "loading"
  /\ texture' = "error"
  /\ logged' = logged \cup {"Error loading texture:"}
  /\ UNCHANGED <<variant, clock, currentTime, overlayTime, sunDirection,
                 sunLightPos, clipNormal, clipConstant, rotY, nightRotY, dot,
                 emissiveIntensity, geo, posCalls, rafPending, frames,
                 frameTime, renderedDot, observed, resizeListener, disposed,
                 rendererSize, cameraAspect>>

\* the window's resize event
handleResize ==
  /\ resizeListener
  /\ \E sz \in WindowSizes :
       /\ cameraAspect' = sz
       /\ rendererSize' = sz
  /\ UNCHANGED <<variant, clock, currentTime, overlayTime, sunDirection,
                 sunLightPos, clipNormal, clipConstant, rotY, nightRotY, dot,
                 emissiveIntensity, geo, posCalls, texture, rafPending, frames,
                 frameTime, renderedDot, observed, resizeListener, disposed,
                 logged>>

\* the function the effect returns
Cleanup ==
  /\ ~disposed
  /\ resizeListener' = FALSE
  /\ disposed' = TRUE
  /\ UNCHANGED <<variant, clock, currentTime, overlayTime, sunDirection,
                 sunLightPos, clipNormal, clipConstant, rotY, nightRotY, dot,
                 emissiveIntensity, geo, posCalls, texture, rafPending, frames,
                 frameTime, renderedDot, observed, rendererSize, cameraAspect,
                 logged>>

Next ==
  \/ Tick
  \/ animate
  \/ GeoSuccess
  \/ GeoError
  \/ TextureLoaded
  \/ TextureError
  \/ handleResize
  \/ Cleanup

Spec == Init /\ [][Next]_vars

\* the browser keeps delivering requested frames
FairSpec == Spec /\ WF_vars(animate)

TypeOK ==
  /\ variant \in Variants
  /\ clock \in 0..MaxClock
  /\ frames \in 1..MaxFrames
  /\ geo \in {"pending", "unsupported", "success", "error"}
  /\ texture \in {"loading", "loaded", "error"}
  /\ rafPending \in Nat
  /\ disposed \in BOOLEAN

\* ------------------------------------------------------------- properties
Fallback == positionDotAtLocation(FallbackLat, FallbackLon)

\* a vector of magnitude 1, within one percent
IsUnit(v) ==
  LET d == LengthSq(v) - U
  IN  d <= U \div 100 /\ -d <= U \div 100

Failed == texture = "error" \/ geo = "error"

\* C1: once the cleanup has run, no frame request remains pending (and so
\* animate() is never invoked again).
C1_TeardownCancelsFrames == disposed => rafPending = 0

\* C2: while the geolocation query is pending, the marker is at the fallback
\* coordinate mapped onto the sphere, in the scene and in every drawn frame.
C2_FallbackWhilePending ==
  geo = "pending" => (dot = Fallback /\ renderedDot = Fallback)

\* C3: after a geolocation error, or when geolocation is unsupported, the
\* marker is exactly where positionDotAtLocation puts (45.464, 9.190), the
\* failure is logged, and a frame request is still pending.
C3_FailureFallsBack ==
  /\ geo = "error" =>
       /\ dot = Fallback
       /\ "Geolocation error, defaulting to Milan:" \in logged
       /\ rafPending = 1
  /\ geo = "unsupported" =>
       /\ dot = Fallback
       /\ "Geolocation not supported, defaulting to Milan" \in logged
       /\ rafPending = 1

\* C3 witness: a frame drawn after the error callback placed the marker
C3_Witness ==
  geo = "error" /\ renderedDot = Fallback /\ dot = Fallback /\ frames >= 2

\* C4: after each frame the light position and the clip-plane normal are the
\* values the setup derives from that frame's instant.
C4_RecomputedEachFrame ==
  /\ sunLightPos = SetupLightPosition(variant, frameTime)
  /\ clipNormal = SetupClipNormal(variant, frameTime)

\* C5: the solar direction has magnitude 1 and the clip plane is
\* (-direction, 0); placing the light does not change the direction.
C5_UnitDirectionAndPlane ==
  /\ sunDirection = SunDirectionAt(currentTime)
  /\ IsUnit(sunDirection)
  /\ clipNormal = Negate(SunDirectionAt(currentTime))
  /\ clipConstant = 0

\* C6: positionDotAtLocation runs at most once, exactly once when the query
\* is resolved, and once it has run no step changes the marker position.
C6_ConsumedOnce ==
  /\ posCalls <= 1
  /\ [][ /\ posCalls' <= 1
         /\ (geo' # "pending" => posCalls' = 1)
         /\ (geo # "pending" => geo' = geo)
         /\ (posCalls = 1 => (dot' = dot /\ posCalls' = 1)) ]_vars

\* C6 witness: the query succeeded, then a frame was drawn and the view
\* was torn down
C6_Witness ==
  /\ geo = "success" /\ posCalls = 1
  /\ renderedDot = dot /\ dot # Origin
  /\ disposed

\* C7: two frames with the same instant leave the same direction vector,
\* light position and clip-plane normal.
C7_SameInstantSameDirection ==
  \A a \in observed : \A b \in observed : a.instant = b.instant => a = b

\* C7 witness: more frames than distinct records, so two frames shared an
\* instant
C7_Witness == frames >= 2 /\ Cardinality(observed) < frames

\* C8: after a texture-load or geolocation failure a frame request stays
\* pending and every frame is followed by another one.
C8_ErrorsDoNotHalt ==
  /\ [](Failed => rafPending = 1)
  /\ \A n \in 1..(MaxFrames - 1) :
       (Failed /\ frames = n) ~> (Failed /\ frames = n + 1)

\* C8 witness: both failures happened and a frame was drawn afterwards
C8_Witness ==
  /\ texture = "error" /\ geo = "error"
  /\ renderedDot = Fallback /\ frames >= 2

\* C9: before teardown exactly one frame request is pending, and under
\* fair delivery of frames every frame is followed by another one.
C9_ReschedulesForever ==
  /\ [](~disposed => rafPending = 1)
  /\ \A n \in 1..(MaxFrames - 1) :
       (~disposed /\ frames = n) ~> (disposed \/ frames = n + 1)

\* C9 witness: several frames ran, the view is mounted, a request is pending
C9_Witness == ~disposed /\ frames >= 3 /\ rafPending = 1

\* C10: a frame adds exactly 0.002 to the Earth's y-rotation, which only
\* accumulates, and leaves the night overlay, the clip plane, the light
\* position and the marker's local position unchanged.
C10_FrameRotatesOnlyEarth ==
  /\ [](rotY = frames * RotStep)
  /\ [][ frames' # frames =>
           /\ rotY' = rotY + RotStep
           /\ nightRotY' = nightRotY
           /\ clipNormal' = clipNormal
           /\ clipConstant' = clipConstant
           /\ sunLightPos' = sunLightPos
           /\ dot' = dot ]_vars

\* C10 witness: three frames ran, only the Earth has turned
C10_Witness ==
  frames >= 3 /\ rotY = 3 * RotStep /\ nightRotY = 0 /\ dot # Origin
====
